---- MODULE Spec2Model ----
(***************************************************************************)
(* awsns (src/main.go): one invocation of run() reconciles the A/CNAME     *)
(* records of a Route 53 zone under a suffix with the running non-spot     *)
(* EC2 instances, named after their "Name" tag.                            *)
(*                                                                         *)
(* Strings the code takes apart (names, suffixes, labels) are sequences of *)
(* one-character strings; opaque strings (ids, types, addresses) are TLA+  *)
(* strings.  A Go *string is Nil (<<>>) or Ptr(v) (<<v>>).                 *)
(***************************************************************************)
EXTENDS Naturals, Sequences, FiniteSets, TLC

\* ------------------------------------------------------------ bounds
\* most instances the EC2 directory answers with
MaxInst == 2
\* most record sets the zone holds before the first run
MaxRecs == 2
\* record sets per page of the zone listing
PageSize == 1

\* ------------------------------------------------------------ strings
Nil == <<>>
Ptr(v) == <<v>>

Dot == <<".">>

HasPrefix(s, p) ==
    /\ Len(p) <= Len(s)
    /\ SubSeq(s, 1, Len(p)) = p

HasSuffix(s, p) ==
    /\ Len(p) <= Len(s)
    /\ SubSeq(s, Len(s) - Len(p) + 1, Len(s)) = p

TrimSuffix(s, p) ==
    IF HasSuffix(s, p) THEN SubSeq(s, 1, Len(s) - Len(p)) ELSE s

LowerLetters ==
    {"a", "b", "c", "d", "e", "f", "g", "h", "i", "j", "k", "l", "m",
     "n", "o", "p", "q", "r", "s", "t", "u", "v", "w", "x", "y", "z"}

UpperLetters ==
    {"A", "B", "C", "D", "E", "F", "G", "H", "I", "J", "K", "L", "M",
     "N", "O", "P", "Q", "R", "S", "T", "U", "V", "W", "X", "Y", "Z"}

Digits == {"0", "1", "2", "3", "4", "5", "6", "7", "8", "9"}

\* func valid: non-empty, every rune a letter, a digit or '-'
valid(name) ==
    /\ name # <<>>
    /\ \A i \in 1..Len(name) :
          \/ name[i] \in LowerLetters
          \/ name[i] \in UpperLetters
          \/ name[i] \in Digits
          \/ name[i] = "-"

\* ------------------------------------------------------------ inputs
\* -suffix / SUFFIX: ".x" is well formed; ".", "x" and "" are not
Suffixes == {<<".", "x">>, <<".">>, <<"x">>, <<>>}

\* -zone / ZONE
ZoneIDs == {"", "Z1"}

\* det.ID of the CloudWatch event; "" for a manual invocation
InvokerIDs == {"", "i-1"}

\* instance ids, by position in the DescribeInstances answer
InstanceIds == <<"i-1", "i-2", "i-3", "i-4">>

Tag(k, v) == [Key |-> k, Value |-> v]

\* inst.Tags: no tag, Name=a, another tag before Name=b, an invalid Name
TagLists ==
    {<<>>,
     <<Tag("Name", <<"a">>)>>,
     <<Tag("env", <<"a">>), Tag("Name", <<"b">>)>>,
     <<Tag("Name", <<"a", "_">>)>>}

\* (inst.PublicDnsName, inst.PublicIpAddress): no public endpoint (EC2 answers
\* with an empty name and no address), an address only, a name and an address
Endpoints ==
    {<<Ptr(""), Nil>>,
     <<Nil, Ptr("5.6.7.8")>>,
     <<Ptr("ec2.example.net"), Ptr("5.6.7.8")>>}

\* inst.InstanceLifecycle is absent for an on-demand instance
StandardShapes ==
    [Tags : TagLists, InstanceLifecycle : {Nil}, Endpoint : Endpoints]

\* a spot instance that has a valid Name tag and both public endpoints
SpotShapes ==
    [Tags : {<<Tag("Name", <<"a">>)>>}, InstanceLifecycle : {Ptr("spot")},
     Endpoint : {<<Ptr("ec2.example.net"), Ptr("5.6.7.8")>>}]

InstanceShapes == StandardShapes \cup SpotShapes

Instance(id, shape) ==
    [InstanceId        |-> Ptr(id),
     InstanceLifecycle |-> shape.InstanceLifecycle,
     Tags              |-> shape.Tags,
     PublicDnsName     |-> shape.Endpoint[1],
     PublicIpAddress   |-> shape.Endpoint[2]]

\* resp.Reservations: every running instance in a reservation of its own
ReservationLists ==
    UNION {
      {[k \in 1..n |-> [Instances |-> <<Instance(InstanceIds[k], shapes[k])>>]] :
          shapes \in [1..n -> InstanceShapes]} :
      n \in 0..MaxInst}

\* a record set of the zone as ListResourceRecordSets returns it: the name
\* fully qualified, with the trailing dot
RecordSet(name, type, ttl, values) ==
    [Name |-> name, Type |-> type, TTL |-> ttl, ResourceRecords |-> values]

\* what the zone may hold before the first run
InitialRecords ==
    {RecordSet(<<"a", ".", "x", ".">>, "A",     Ptr(300), <<"1.2.3.4">>),
     RecordSet(<<"a", ".", "x", ".">>, "CNAME", Ptr(300), <<"old.example.net">>),
     RecordSet(<<"a", ".", "x", ".">>, "TXT",   Ptr(300), <<"text">>),
     RecordSet(<<"b", ".", "x", ".">>, "A",     Ptr(60),  <<"5.6.7.8">>),
     RecordSet(<<".", "x", ".">>,      "A",     Ptr(300), <<"1.2.3.4">>),
     RecordSet(<<"x", ".">>,           "A",     Ptr(300), <<"1.2.3.4">>),
     RecordSet(<<"a", ".", "y", ".">>, "CNAME", Ptr(300), <<"old.example.net">>)}

Key(rr) == <<rr.Name, rr.Type>>

\* a zone holds one record set per name and type, and a CNAME shares its
\* name with no other record set
WellFormedZone(z) ==
    \A r1, r2 \in z :
        r1 # r2 =>
            /\ Key(r1) # Key(r2)
            /\ r1.Name = r2.Name => r1.Type # "CNAME" /\ r2.Type # "CNAME"

InitialZones ==
    {z \in SUBSET InitialRecords : Cardinality(z) <= MaxRecs /\ WellFormedZone(z)}

\* ------------------------------------------------------------ the zone store
\* ListResourceRecordSets answers in a fixed order: by name, then by type
ListingNames ==
    <<<<"x", ".">>, <<".", "x", ".">>, <<"a", ".", "x", ".">>,
      <<"b", ".", "x", ".">>, <<"a", ".", "y", ".">>>>

ListingTypes == <<"A", "CNAME", "TXT">>

ListingKeys ==
    [i \in 1..(Len(ListingNames) * Len(ListingTypes)) |->
        <<ListingNames[((i - 1) \div Len(ListingTypes)) + 1],
          ListingTypes[((i - 1) % Len(ListingTypes)) + 1]>>]

Listing(z) ==
    LET Held(k) == \E r \in z : Key(r) = k
        ks == SelectSeq(ListingKeys, Held)
    IN  [i \in 1..Len(ks) |-> CHOOSE r \in z : Key(r) = ks[i]]

\* the listing is paginated; an empty zone still answers with one empty page
NumPages(z) ==
    IF z = {} THEN 1 ELSE (Cardinality(z) + PageSize - 1) \div PageSize

PageOf(z, k) ==
    LET l == Listing(z)
        last == IF k * PageSize < Len(l) THEN k * PageSize ELSE Len(l)
    IN  SubSeq(l, (k - 1) * PageSize + 1, last)

\* Route 53 stores a name fully qualified
Fqdn(name) == IF HasSuffix(name, Dot) THEN name ELSE name \o Dot

\* one change of an accepted batch: UPSERT creates the record set or replaces
\* the one of the same name and type, DELETE removes the record set it matches
ApplyChange(z, ch) ==
    LET rr == RecordSet(Fqdn(ch.Name), ch.Type, ch.TTL, ch.ResourceRecords)
    IN  IF ch.Action = "UPSERT"
        THEN {r \in z : Key(r) # Key(rr)} \cup {rr}
        ELSE z \ {rr}

RECURSIVE ApplyBatch(_, _)
ApplyBatch(z, chs) ==
    IF chs = <<>> THEN z ELSE ApplyBatch(ApplyChange(z, Head(chs)), Tail(chs))

\* ------------------------------------------------------------ the code
\* no instance skipped
SkipSpot_never(inst) == FALSE

\* runningInstances: an instance with a lifecycle set is skipped
SkipSpot(inst) == inst.InstanceLifecycle # Nil

RECURSIVE KeepInstances(_)
KeepInstances(insts) ==
    IF insts = <<>> THEN <<>>
    ELSE (IF SkipSpot(Head(insts)) THEN <<>> ELSE <<Head(insts)>>)
         \o KeepInstances(Tail(insts))

RECURSIVE runningInstances(_)
runningInstances(rs) ==
    IF rs = <<>> THEN <<>>
    ELSE KeepInstances(Head(rs).Instances) \o runningInstances(Tail(rs))

\* the check of the suffix without the test for the leading dot
InvalidSuffix_dotOnly(sfx) == sfx = Dot

\* run: the suffix must start with a dot and be more than the dot
InvalidSuffix(sfx) == sfx = Dot \/ ~HasPrefix(sfx, Dot)

\* the invoking instance taken as found
InvokerFound_always(insts, id) == TRUE

\* run: is the invoking instance among the instances kept
InvokerFound(insts, id) ==
    \E i \in 1..Len(insts) :
        insts[i].InstanceId # Nil /\ insts[i].InstanceId[1] = id

\* fn: a record set is passed over by its name ...
SkipByName(rr, sfx) ==
    rr.Name = sfx \o Dot \/ ~HasSuffix(rr.Name, sfx \o Dot)

\* no record set passed over by its type
SkipByType_never(rr) == FALSE

\* ... or by its type
SkipByType(rr) == rr.Type # "A" /\ rr.Type # "CNAME"

DeleteChange(name, rr) ==
    [Action |-> "DELETE", Name |-> name, TTL |-> rr.TTL, Type |-> rr.Type,
     ResourceRecords |-> rr.ResourceRecords]

\* toRemove[name] = ch
MapPut(m, k, v) == [x \in DOMAIN m \cup {k} |-> IF x = k THEN v ELSE m[x]]

\* a delete that removes nothing
MapDelete_noop(m, k) == m

\* delete(toRemove, name)
MapDelete(m, k) == [x \in DOMAIN m \ {k} |-> m[x]]

\* the key of a candidate with the trailing dot left on
CandidateName_untrimmed(rr) == rr.Name

\* fn: the key of a candidate is the record's name less its trailing dot
CandidateName(rr) == TrimSuffix(rr.Name, Dot)

\* fn: the callback over one page of the listing
RECURSIVE fn(_, _, _)
fn(rrs, sfx, tr) ==
    IF rrs = <<>> THEN tr
    ELSE LET rr == Head(rrs)
             name == CandidateName(rr)
         IN  IF SkipByName(rr, sfx) \/ SkipByType(rr)
             THEN fn(Tail(rrs), sfx, tr)
             ELSE fn(Tail(rrs), sfx, MapPut(tr, name, DeleteChange(name, rr)))

\* run: the value of the first tag whose key is "Name", "" without one
RECURSIVE NameTag(_)
NameTag(tags) ==
    IF tags = <<>> THEN <<>>
    ELSE IF Head(tags).Key = "Name" THEN Head(tags).Value
    ELSE NameTag(Tail(tags))

UpsertTTL == 60

UpsertChange(name, type, value) ==
    [Action |-> "UPSERT", Name |-> name, TTL |-> Ptr(UpsertTTL), Type |-> type,
     ResourceRecords |-> <<value>>]

\* the switch with its first two cases in the other order
BuildChange_addressFirst(inst, sfx) ==
    LET name == NameTag(inst.Tags)
    IN  IF inst.PublicIpAddress # Nil /\ inst.PublicIpAddress[1] # ""
        THEN <<UpsertChange(name \o sfx, "A", inst.PublicIpAddress[1])>>
        ELSE IF inst.PublicDnsName # Nil /\ inst.PublicDnsName[1] # ""
        THEN <<UpsertChange(name \o sfx, "CNAME", inst.PublicDnsName[1])>>
        ELSE <<>>

\* run: the switch that picks the record's type and target; <<>> for the
\* default branch, which passes the instance over
BuildChange(inst, sfx) ==
    LET name == NameTag(inst.Tags)
    IN  IF inst.PublicDnsName # Nil /\ inst.PublicDnsName[1] # ""
        THEN <<UpsertChange(name \o sfx, "CNAME", inst.PublicDnsName[1])>>
        ELSE IF inst.PublicIpAddress # Nil /\ inst.PublicIpAddress[1] # ""
        THEN <<UpsertChange(name \o sfx, "A", inst.PublicIpAddress[1])>>
        ELSE <<>>

\* the loop body with the candidate looked up by the bare label
LoopBody_bareLabel(st, inst, sfx) ==
    LET name == NameTag(inst.Tags)
        ch == BuildChange(inst, sfx)
    IN  IF ~valid(name) THEN st
        ELSE IF ch = <<>> THEN st
        ELSE [toRemove |-> MapDelete(st.toRemove, name),
              changes  |-> st.changes \o ch]

\* run: the body of the loop over the instances, on (toRemove, changes)
LoopBody(st, inst, sfx) ==
    LET name == NameTag(inst.Tags)
        ch == BuildChange(inst, sfx)
    IN  IF ~valid(name) THEN st
        ELSE IF ch = <<>> THEN st
        ELSE [toRemove |-> MapDelete(st.toRemove, name \o sfx),
              changes  |-> st.changes \o ch]

RECURSIVE Loop(_, _, _)
Loop(st, insts, sfx) ==
    IF insts = <<>> THEN st
    ELSE Loop(LoopBody(st, Head(insts), sfx), Tail(insts), sfx)

\* the guard never taken
NoChanges_never(chs) == FALSE

\* run: nothing to upsert
NoChanges(chs) == Len(chs) = 0

\* the orders in which ranging over the map toRemove may visit its keys
KeyOrders(m) ==
    {o \in [1..Cardinality(DOMAIN m) -> DOMAIN m] :
        \A i, j \in DOMAIN o : i # j => o[i] # o[j]}

Removals(m, o) == [i \in DOMAIN o |-> m[o[i]]]

\* ------------------------------------------------------------ state
VARIABLES
    suffix,        \* run's argument suffix
    zoneID,        \* run's argument zoneID
    invokerID,     \* run's argument invokerID
    reservations,  \* what DescribeInstances answers (running instances)
    zone,          \* the record sets the zone holds
    zone0,         \* the zone as it was when this run began
    pc,            \* where run() is
    err,           \* what run() returned: "none" until it returns, "nil" for success
    instances,     \* run's instances
    page,          \* the page of the listing to come
    toRemove,      \* run's toRemove
    changes,       \* run's changes
    batch,         \* input.ChangeBatch.Changes as submitted, <<>> before
    calls,         \* provider requests of this run: describe, list, change
    runNo,         \* 1 for the first invocation, 2 for the one after it
    first          \* what the first invocation submitted and left behind

vars ==
    <<suffix, zoneID, invokerID, reservations, zone, zone0, pc, err, instances,
      page, toRemove, changes, batch, calls, runNo, first>>

args == <<suffix, zoneID, invokerID>>

EmptyMap == [x \in {} |-> x]

NoCalls == [describe |-> 0, list |-> 0, change |-> 0]

NoFirst == [batch |-> <<>>, zone |-> {}]

Init ==
    /\ suffix \in Suffixes
    /\ zoneID \in ZoneIDs
    /\ invokerID \in InvokerIDs
    /\ reservations = <<>>
    /\ zone \in InitialZones
    /\ zone0 = zone
    /\ pc = "validate"
    /\ err = "none"
    /\ instances = <<>>
    /\ page = 1
    /\ toRemove = EmptyMap
    /\ changes = <<>>
    /\ batch = <<>>
    /\ calls = NoCalls
    /\ runNo = 1
    /\ first = NoFirst

\* return err
Return(e) ==
    /\ pc' = "done"
    /\ err' = e

\* lines 83-88
ValidateConfig ==
    /\ pc = "validate"
    /\ IF InvalidSuffix(suffix) THEN Return("invalid suffix")
       ELSE IF zoneID = "" THEN Return("hosted zone id cannot be empty")
       ELSE pc' = "session" /\ err' = err
    /\ UNCHANGED <<args, reservations, zone, zone0, instances, page, toRemove,
                   changes, batch, calls, runNo, first>>

\* lines 89-92: session.NewSession succeeds or fails
NewSession ==
    /\ pc = "session"
    /\ \E ok \in BOOLEAN :
          IF ok THEN pc' = "describe" /\ err' = err
          ELSE Return("session error")
    /\ UNCHANGED <<args, reservations, zone, zone0, instances, page, toRemove,
                   changes, batch, calls, runNo, first>>

\* lines 93-96 and runningInstances: the request fails, or answers with the
\* running instances (the same ones when nothing changed since the first run)
RunningInstances ==
    /\ pc = "describe"
    /\ calls' = [calls EXCEPT !.describe = @ + 1]
    /\ \/ /\ Return("describe error")
          /\ UNCHANGED <<reservations, instances>>
       \/ /\ \E resp \in (IF runNo = 1 THEN ReservationLists ELSE {reservations}) :
                /\ reservations' = resp
                /\ instances' = runningInstances(resp)
          /\ pc' = "invoker"
          /\ err' = err
    /\ UNCHANGED <<args, zone, zone0, page, toRemove, changes, batch, runNo, first>>

\* lines 97-109
CheckInvoker ==
    /\ pc = "invoker"
    /\ IF invokerID # "" /\ ~InvokerFound(instances, invokerID)
       THEN Return("nil")
       ELSE pc' = "list" /\ err' = err
    /\ UNCHANGED <<args, reservations, zone, zone0, instances, page, toRemove,
                   changes, batch, calls, runNo, first>>

\* lines 110-139: one page of ListResourceRecordSetsPagesWithContext; the
\* request for it fails (or is cancelled), or fn sees the page
ListPage ==
    /\ pc = "list"
    /\ calls' = [calls EXCEPT !.list = @ + 1]
    /\ \/ /\ Return("list error")
          /\ UNCHANGED <<page, toRemove>>
       \/ /\ toRemove' = fn(PageOf(zone, page), suffix, toRemove)
          /\ page' = page + 1
          /\ pc' = IF page = NumPages(zone) THEN "loop" ELSE "list"
          /\ err' = err
    /\ UNCHANGED <<args, reservations, zone, zone0, instances, changes, batch,
                   runNo, first>>

\* lines 141-179: the loop over the instances and the guard after it
ProcessInstances ==
    /\ pc = "loop"
    /\ LET st == Loop([toRemove |-> toRemove, changes |-> <<>>], instances, suffix)
       IN  /\ toRemove' = st.toRemove
           /\ changes' = st.changes
           /\ IF NoChanges(st.changes) THEN Return("no changes to apply")
              ELSE pc' = "submit" /\ err' = err
    /\ UNCHANGED <<args, reservations, zone, zone0, instances, page, batch, calls,
                   runNo, first>>

\* lines 180-193: the removals left are appended in the map's order and the
\* batch is submitted once; the zone store applies all of it or rejects it
Submit ==
    /\ pc = "submit"
    /\ calls' = [calls EXCEPT !.change = @ + 1]
    /\ \E o \in KeyOrders(toRemove) :
          /\ changes' = changes \o Removals(toRemove, o)
          /\ batch' = changes'
          /\ \/ /\ zone' = ApplyBatch(zone, changes')
                /\ Return("nil")
             \/ /\ zone' = zone
                /\ Return("change error")
    /\ UNCHANGED <<args, reservations, zone0, instances, page, toRemove, runNo, first>>

\* run() has returned success and is invoked once more, nothing else having
\* touched the instances or the zone in between
NextRun ==
    /\ pc = "done"
    /\ err = "nil"
    /\ runNo = 1
    /\ runNo' = 2
    /\ first' = [batch |-> batch, zone |-> zone]
    /\ zone0' = zone
    /\ pc' = "validate"
    /\ err' = "none"
    /\ instances' = <<>>
    /\ page' = 1
    /\ toRemove' = EmptyMap
    /\ changes' = <<>>
    /\ batch' = <<>>
    /\ calls' = NoCalls
    /\ UNCHANGED <<args, reservations, zone>>

Run ==
    \/ ValidateConfig
    \/ NewSession
    \/ RunningInstances
    \/ CheckInvoker
    \/ ListPage
    \/ ProcessInstances
    \/ Submit

Next == Run

Spec == Init /\ [][Next]_vars

NextTwice == Run \/ NextRun

SpecTwice == Init /\ [][NextTwice]_vars

\* ------------------------------------------------------------ vocabulary of the claims
\* the running instances the EC2 directory holds, in the order it answers
Directory == [k \in DOMAIN reservations |-> reservations[k].Instances[1]]

Label(inst) == NameTag(inst.Tags)

Desired(inst) == Label(inst) \o suffix

Standard(inst) == inst.InstanceLifecycle = Nil

HasHostname(inst) == inst.PublicDnsName # Nil /\ inst.PublicDnsName # Ptr("")

HasAddress(inst) == inst.PublicIpAddress # Nil /\ inst.PublicIpAddress # Ptr("")

\* the instance takes part and yields a record
Eligible(inst) ==
    /\ Standard(inst)
    /\ valid(Label(inst))
    /\ HasHostname(inst) \/ HasAddress(inst)

EligibleSeq == SelectSeq(Directory, Eligible)

\* the record set is in the Managed Name Set
ManagedRecord(rr) ==
    /\ Len(rr.Name) > Len(suffix) + 1
    /\ HasSuffix(rr.Name, suffix \o Dot)
    /\ rr.Type \in {"A", "CNAME"}

IsUpsert(ch) == ch.Action = "UPSERT"

IsDelete(ch) == ch.Action = "DELETE"

Upserts(chs) == SelectSeq(chs, IsUpsert)

Deletes(chs) == SelectSeq(chs, IsDelete)

\* the change deletes exactly this record set
DeletesRecord(ch, rr) ==
    /\ IsDelete(ch)
    /\ Fqdn(ch.Name) = rr.Name
    /\ ch.Type = rr.Type
    /\ ch.TTL = rr.TTL
    /\ ch.ResourceRecords = rr.ResourceRecords

\* every page of the zone listing has been handed to fn
ListingDone == page >= 2 /\ (page - 1) * PageSize >= Cardinality(zone0)

\* the loop over the instances and the guard after it have run
LoopDone == ListingDone /\ pc \in {"submit", "done"}

\* the batch went to the zone store
Submitted == batch # <<>>

\* the batch went to the zone store and was applied
Applied == pc = "done" /\ err = "nil" /\ Submitted

\* ------------------------------------------------------------ claims
\* C1: no candidate left after the loop, and no DELETE of a submitted batch,
\* is for the name label+suffix of a running standard-lifecycle instance
\* that has a valid label and a public hostname or address.
C1_NoDeleteForRunningInstance ==
    LoopDone =>
        LET dir == Directory
        IN  \A k \in DOMAIN dir :
                Eligible(dir[k]) =>
                    /\ Desired(dir[k]) \notin DOMAIN toRemove
                    /\ \A i \in DOMAIN batch :
                          IsDelete(batch[i]) =>
                              Fqdn(batch[i].Name) # Desired(dir[k]) \o Dot

\* a batch that deletes a stale record was applied while the zone held a
\* managed record named after an instance that yields a record
C1_Witness ==
    /\ Applied
    /\ Deletes(batch) # <<>>
    /\ \E k \in DOMAIN Directory :
          /\ Eligible(Directory[k])
          /\ \E rr \in zone0 :
                ManagedRecord(rr) /\ rr.Name = Desired(Directory[k]) \o Dot

\* C2: when the loop yields no UPSERT (no instance yields a record, the empty
\* snapshot included), run returns "no changes to apply" and sends no change
\* request, whatever the candidates for deletion.
C2_ZeroUpsertsAbort ==
    (LoopDone /\ (Upserts(changes) = <<>> \/ EligibleSeq = <<>>)) =>
        /\ pc = "done"
        /\ err = "no changes to apply"
        /\ calls.change = 0
        /\ ~Submitted
        /\ zone = zone0

\* the snapshot was empty, two candidates for deletion were pending
C2_Witness ==
    /\ pc = "done"
    /\ err = "no changes to apply"
    /\ reservations = <<>>
    /\ Cardinality(DOMAIN toRemove) >= 2

\* the changes of the batch that are for this fully-qualified name
ChangesFor(n) == {i \in DOMAIN batch : Fqdn(batch[i].Name) = n}

\* the instances that yield a record of this fully-qualified name
EligibleFor(n) ==
    LET es == EligibleSeq
    IN  {j \in DOMAIN es : Desired(es[j]) \o Dot = n}

Excluded(inst) == ~Eligible(inst)

\* the submitted batch deletes this record set
BatchDeletes(rr) == \E i \in DOMAIN batch : DeletesRecord(batch[i], rr)

\* the managed record sets the zone held that are named after this instance
RecordsNamedAfter(inst) ==
    {rr \in zone0 : ManagedRecord(rr) /\ rr.Name = Desired(inst) \o Dot}

\* C4 as claimed: a managed record named label+suffix of an excluded
\* instance is deleted by every batch submitted.
C4_ExcludedRecordAlwaysDeleted ==
    Submitted =>
        \A k \in DOMAIN Directory :
            Excluded(Directory[k]) =>
                \A rr \in RecordsNamedAfter(Directory[k]) : BatchDeletes(rr)

\* C4 as amended: the UPSERTs are those of the instances not excluded, one
\* each and in their order, so an excluded instance gets none; and a managed
\* record named label+suffix of an excluded instance stays a candidate, and
\* is deleted by every batch submitted, unless an instance that is not
\* excluded carries the same label.
C4_ExcludedGetNoUpsert ==
    LoopDone =>
        LET es == EligibleSeq
            ups == Upserts(changes)
            dir == Directory
        IN  /\ Len(ups) = Len(es)
            /\ \A j \in DOMAIN es : ups[j].Name = Desired(es[j])
            /\ \A rr \in zone0 :
                  (/\ ManagedRecord(rr)
                   /\ \E k \in DOMAIN dir :
                          Excluded(dir[k]) /\ rr \in RecordsNamedAfter(dir[k])
                   /\ \A j \in DOMAIN es : Desired(es[j]) \o Dot # rr.Name) =>
                      IF Submitted THEN BatchDeletes(rr)
                      ELSE /\ TrimSuffix(rr.Name, Dot) \in DOMAIN toRemove
                           /\ DeletesRecord(toRemove[TrimSuffix(rr.Name, Dot)], rr)

\* a batch went out while a spot instance's label named a managed record of
\* the zone, and the batch deletes that record
C4_Witness ==
    /\ Submitted
    /\ \E k \in DOMAIN Directory :
          /\ ~Standard(Directory[k])
          /\ RecordsNamedAfter(Directory[k]) # {}
          /\ \A rr \in RecordsNamedAfter(Directory[k]) : BatchDeletes(rr)

\* the second run came after a first run that had its batch applied
SecondAfterApplied == runNo = 2 /\ first.batch # <<>>

\* the two batches hold the same changes, whatever their order
SameChanges(b1, b2) ==
    /\ Len(b1) = Len(b2)
    /\ \A ch \in {b1[i] : i \in DOMAIN b1} \cup {b2[i] : i \in DOMAIN b2} :
          Cardinality({i \in DOMAIN b1 : b1[i] = ch})
              = Cardinality({i \in DOMAIN b2 : b2[i] = ch})

\* C5 as claimed: the two runs submit equivalent batches, both of UPSERTs
\* only, and the second leaves the zone as the first left it.
C5_SameBatchBothTimes ==
    (SecondAfterApplied /\ Submitted) =>
        /\ SameChanges(first.batch, batch)
        /\ Deletes(first.batch) = <<>>
        /\ Deletes(batch) = <<>>
        /\ zone = first.zone

\* C5 as amended: after a run whose batch was applied, the next run has no
\* candidate left after its loop and submits UPSERTs only, the very UPSERTs
\* of the first batch (which may have carried DELETEs besides); applying
\* them leaves the zone as the first run left it.
C5_SecondRunUpsertsOnly ==
    SecondAfterApplied =>
        /\ zone = first.zone
        /\ err # "no changes to apply"
        /\ LoopDone => DOMAIN toRemove = {}
        /\ Submitted =>
              /\ Deletes(batch) = <<>>
              /\ batch = Upserts(first.batch)

\* the second batch was applied after a first batch that deleted a record
C5_Witness ==
    /\ SecondAfterApplied
    /\ Applied
    /\ Deletes(first.batch) # <<>>

\* C6: invoked for an instance id that is not among the running, non-spot
\* instances just listed, run returns success, never lists the zone and
\* sends no change request.
C6_UnknownInvokerIsNoOp ==
    (/\ invokerID # ""
     /\ calls.describe = 1
     /\ pc # "invoker"
     /\ err # "describe error"
     /\ ~\E k \in DOMAIN Directory :
            Standard(Directory[k]) /\ Directory[k].InstanceId = Ptr(invokerID)) =>
        /\ pc = "done"
        /\ err = "nil"
        /\ calls.list = 0
        /\ calls.change = 0
        /\ toRemove = EmptyMap
        /\ ~Submitted
        /\ zone = zone0

\* the invoking instance was running, but as a spot instance, next to an
\* instance that yields a record, and the zone held a stale managed record
C6_Witness ==
    /\ pc = "done"
    /\ err = "nil"
    /\ invokerID # ""
    /\ \E k \in DOMAIN Directory :
          ~Standard(Directory[k]) /\ Directory[k].InstanceId = Ptr(invokerID)
    /\ EligibleSeq # <<>>
    /\ \E rr \in zone : ManagedRecord(rr)

\* C7: the UPSERTs are one per instance that yields a record, in order, each
\* named label+suffix with TTL 60: a CNAME to the public hostname when that
\* is non-empty, otherwise an A to the public address.
C7_UpsertShape ==
    LoopDone =>
        LET es == EligibleSeq
            ups == Upserts(changes)
        IN  /\ Len(ups) = Len(es)
            /\ \A j \in DOMAIN es :
                  /\ ups[j].Name = Label(es[j]) \o suffix
                  /\ ups[j].TTL = Ptr(60)
                  /\ HasHostname(es[j]) =>
                        /\ ups[j].Type = "CNAME"
                        /\ ups[j].ResourceRecords = es[j].PublicDnsName
                  /\ ~HasHostname(es[j]) =>
                        /\ ups[j].Type = "A"
                        /\ ups[j].ResourceRecords = es[j].PublicIpAddress

\* a batch went out with a CNAME for an instance that has both a hostname and
\* an address, and an A for an instance that has an address only
C7_Witness ==
    /\ Submitted
    /\ \E j, k \in DOMAIN EligibleSeq :
          /\ HasHostname(EligibleSeq[j]) /\ HasAddress(EligibleSeq[j])
          /\ Upserts(batch)[j].Type = "CNAME"
          /\ ~HasHostname(EligibleSeq[k])
          /\ Upserts(batch)[k].Type = "A"

\* C8: every candidate and every DELETE submitted is for a record set the
\* zone held whose name ends with the suffix, is longer than it, and whose
\* type is A or CNAME; no change is for the name and type of any other
\* record set, and those record sets stay in the zone as they were.
C8_OnlyManagedRecordsTouched ==
    /\ \A n \in DOMAIN toRemove :
          \E rr \in zone0 : ManagedRecord(rr) /\ DeletesRecord(toRemove[n], rr)
    /\ \A i \in DOMAIN batch :
          /\ IsDelete(batch[i]) =>
                \E rr \in zone0 : ManagedRecord(rr) /\ DeletesRecord(batch[i], rr)
          /\ \A rr \in zone0 :
                ~ManagedRecord(rr) => Key(rr) # <<Fqdn(batch[i].Name), batch[i].Type>>
    /\ \A rr \in zone0 : ~ManagedRecord(rr) => rr \in zone

\* a batch with a DELETE was applied to a zone that also held a TXT record
\* under the suffix, or a record outside it
C8_Witness ==
    /\ Applied
    /\ Deletes(batch) # <<>>
    /\ \E rr \in zone0 : ~ManagedRecord(rr)

\* the configuration is well formed: a suffix that starts with the separator
\* and is more than the separator, a zone id that is not empty
ConfigOK == Len(suffix) > 1 /\ suffix[1] = "." /\ zoneID # ""

ConfigErrors == {"invalid suffix", "hosted zone id cannot be empty"}

AbortErrors == ConfigErrors \cup {"session error", "describe error", "list error"}

\* C9: at most one change request is sent, and only with a well-formed
\* configuration, after the instance listing and every page of the zone
\* listing succeeded; a malformed configuration fails before any provider
\* request; a run that ends on a configuration, session or listing error has
\* sent no change request and the zone is as it was.
C9_MutationOnceAfterReads ==
    /\ calls.change <= 1
    /\ calls.change = 1 =>
          /\ ConfigOK
          /\ calls.describe = 1
          /\ ListingDone
          /\ (calls.list - 1) * PageSize < Cardinality(zone0) \/ calls.list = 1
          /\ calls.list = page - 1
    /\ (pc = "done" /\ ~ConfigOK) => err \in ConfigErrors /\ calls = NoCalls
    /\ (pc = "done" /\ err \in AbortErrors) =>
          calls.change = 0 /\ ~Submitted /\ zone = zone0
    /\ zone # zone0 => calls.change = 1 /\ err = "nil"

\* the listing failed on its second page, after the first page had made a
\* candidate for deletion
C9_Witness ==
    /\ pc = "done"
    /\ err = "list error"
    /\ calls.list = 2
    /\ DOMAIN toRemove # {}
    /\ EligibleSeq # <<>>

\* the record set an instance that yields a record is meant to have
ExpectedRecord(inst) ==
    IF HasHostname(inst)
    THEN RecordSet(Desired(inst) \o Dot, "CNAME", Ptr(60), inst.PublicDnsName)
    ELSE RecordSet(Desired(inst) \o Dot, "A", Ptr(60), inst.PublicIpAddress)

\* no two instances that yield a record share a label
LabelsDistinct ==
    \A j, k \in DOMAIN EligibleSeq :
        j # k => Label(EligibleSeq[j]) # Label(EligibleSeq[k])

====
